---- MODULE Spec2Model ----
(***************************************************************************)
(* A model of promisio (src/src/promisio/__init__.py): JavaScript-style    *)
(* promises on top of asyncio futures.                                     *)
(*                                                                         *)
(* The heap of Promise objects is the sequence `fut` (one asyncio.Future   *)
(* per promise), the event loop's FIFO of scheduled callbacks is `ready`.  *)
(* Python code runs to completion between two turns of the loop, so every  *)
(* API call made by user code is one action and every callback the loop    *)
(* runs is one action.  Code is translated into operators that map a       *)
(* "world" record to the world after the call; the field `exc` of a world  *)
(* is the exception in flight (NoneV when the call returned normally) and  *)
(* `ret` is the returned value.                                            *)
(***************************************************************************)
EXTENDS Integers, Sequences, FiniteSets, TLC

VARIABLES
    fut,      \* heap: fut[p] is the asyncio.Future (and origin) of promise p
    ready,    \* the event loop's queue of scheduled done-callbacks (call_soon)
    log,      \* invocations of user handlers, in order
    regs,     \* every then() registration made so far, in order
    done,     \* registrations whose _handle_done has run
    raised,   \* what the last API call made by user code raised / returned
    escaped,  \* exceptions that left a done-callback and reached the loop
    task,     \* task[p] is the asyncio.Task of TaskPromise p (self.task)
    coro,     \* coro[t] is the state of the coroutine that task t runs
    comb,     \* the closures of the calls of all / any / race made so far
    hist      \* settlements of inputs and calls of combinators, in order

vars == <<fut, ready, log, regs, done, raised, escaped, task, coro, comb,
          hist>>

----------------------------------------------------------------------------
(* Bounds of the exploration *)

\* promises user code may hold (the ones the library drops come on top)
MaxPromises == 3
\* promises user code may cancel while they are pending
MaxCancels == 1
\* coroutines user code may start through a promisified function
MaxTasks == 2
\* promises user code may construct to pass them to combinators, and
\* inputs it may pass to combinators in all
MaxInputs == 2
\* calls of combinators user code may make
MaxCalls == 2
\* promises user code may construct for its chains
MaxRoots == 2
\* calls of then, catch and finally_ user code may make to build a chain
MaxChain == 2

----------------------------------------------------------------------------
(* Python values.  One record shape for all of them:                       *)
(*   t = "none"      None                                                  *)
(*   t = "int"       a plain value n                                       *)
(*   t = "promise"   a reference to promise n                              *)
(*   t = "RuntimeError" / "InvalidStateError" / "CancelledError"           *)
(*                   an exception instance (n tells RuntimeErrors apart)   *)
(*   t = "task"      a reference to the asyncio.Task n                     *)
(*   t = "list"      the list l (the results of Promise.all)               *)
(*   t = "AggregateError"   an AggregateError whose errors are the list l  *)
(*   t = "AttributeError"   the error of a method call on an object that   *)
(*                   has no such method                                    *)
(*   t = "fulfilled" / "rejected"   a dict of Promise.all_settled with     *)
(*                   that status; l holds its value or reason              *)

NoneV == [t |-> "none", n |-> 0, l |-> <<>>]
IntV(k) == [t |-> "int", n |-> k, l |-> <<>>]
PromiseV(p) == [t |-> "promise", n |-> p, l |-> <<>>]
RuntimeError(k) == [t |-> "RuntimeError", n |-> k, l |-> <<>>]
InvalidStateError == [t |-> "InvalidStateError", n |-> 0, l |-> <<>>]
CancelledError == [t |-> "CancelledError", n |-> 0, l |-> <<>>]

TaskV(t) == [t |-> "task", n |-> t, l |-> <<>>]
ListV(l) == [t |-> "list", n |-> 0, l |-> l]
AggregateError(errors) == [t |-> "AggregateError", n |-> 0, l |-> errors]
AttributeError == [t |-> "AttributeError", n |-> 0, l |-> <<>>]
DictFulfilled(value) == [t |-> "fulfilled", n |-> 0, l |-> <<value>>]
DictRejected(reason) == [t |-> "rejected", n |-> 0, l |-> <<reason>>]

isPromise(v) == v.t = "promise"
isTask(v) == v.t = "task"

\* handlers that can be passed to then()
Absent == [k |-> "absent", beh |-> "", val |-> NoneV, tgt |-> 0]
NonCallable == [k |-> "noncallable", beh |-> "", val |-> NoneV, tgt |-> 0]
UserReturn(v) == [k |-> "user", beh |-> "return", val |-> v, tgt |-> 0]
UserRaise(e) == [k |-> "user", beh |-> "raise", val |-> e, tgt |-> 0]

\* an async def function given to promisify: calling it makes a coroutine
UserCoroutine == [k |-> "user", beh |-> "coroutine", val |-> NoneV, tgt |-> 0]

callable(callback) == callback.k \notin {"absent", "noncallable"}

----------------------------------------------------------------------------
(* Worlds *)

World == [fut |-> fut, ready |-> ready, log |-> log, regs |-> regs,
          task |-> task, coro |-> coro, comb |-> comb,
          exc |-> NoneV, ret |-> NoneV]

Raises(w) == w.exc # NoneV
Return(w, v) == [w EXCEPT !.ret = v, !.exc = NoneV]
Raise(w, e) == [w EXCEPT !.ret = NoneV, !.exc = e]

\* the promises of the heap: every future that is not an asyncio.Task
Promises(w) == (1..Len(w.fut)) \ DOMAIN w.coro


----------------------------------------------------------------------------
(* asyncio.Future, as the promise code uses it *)

\* asyncio.Future(): a fresh pending future.  f tells whether the promise
\* that owns it was given a producer, which holds its resolve and reject.
NewFuture(f) ==
    [state |-> "PENDING", result |-> NoneV, exception |-> NoneV,
     callbacks |-> <<>>, f |-> f]

\* the loop's call_soon of every done-callback of future p, in the order
\* in which they were added
ScheduleCallbacks(w, p) ==
    [w EXCEPT !.ready = w.ready \o
                  [i \in 1..Len(w.fut[p].callbacks) |->
                      [cb |-> w.fut[p].callbacks[i], future |-> p]],
              !.fut[p].callbacks = <<>>]

\* Future.set_result
set_result(w, p, result) ==
    IF w.fut[p].state # "PENDING"
    THEN Raise(w, InvalidStateError)
    ELSE Return(ScheduleCallbacks(
                    [w EXCEPT !.fut[p].state = "FINISHED",
                              !.fut[p].result = result], p), NoneV)

\* Future.set_exception
set_exception(w, p, error) ==
    IF w.fut[p].state # "PENDING"
    THEN Raise(w, InvalidStateError)
    ELSE Return(ScheduleCallbacks(
                    [w EXCEPT !.fut[p].state = "FINISHED",
                              !.fut[p].exception = error], p), NoneV)

\* an add_done_callback that drops a callback added to a future that is
\* already done
add_done_callback_lost(w, p, cb) ==
    IF w.fut[p].state # "PENDING"
    THEN w
    ELSE [w EXCEPT !.fut[p].callbacks = Append(w.fut[p].callbacks, cb)]

\* Future.add_done_callback: a callback added to a future that is already
\* done is scheduled with call_soon, never run inline
add_done_callback(w, p, cb) ==
    IF w.fut[p].state # "PENDING"
    THEN [w EXCEPT !.ready = Append(w.ready, [cb |-> cb, future |-> p])]
    ELSE [w EXCEPT !.fut[p].callbacks = Append(w.fut[p].callbacks, cb)]

\* a Future.cancel that cancels a future whatever its state is
future_cancel_always(w, p) ==
    ScheduleCallbacks([w EXCEPT !.fut[p].state = "CANCELLED"], p)

\* Future.cancel
future_cancel(w, p) ==
    IF w.fut[p].state # "PENDING"
    THEN w
    ELSE ScheduleCallbacks([w EXCEPT !.fut[p].state = "CANCELLED"], p)

\* Future.result of a done future: the result, or the exception raised
result(w, p) ==
    CASE w.fut[p].state = "CANCELLED" -> Raise(w, CancelledError)
      [] w.fut[p].state = "PENDING" -> Raise(w, InvalidStateError)
      [] w.fut[p].exception # NoneV -> Raise(w, w.fut[p].exception)
      [] OTHER -> Return(w, w.fut[p].result)

----------------------------------------------------------------------------
(* asyncio.Task: a future of the heap that runs a coroutine.  coro[t] is   *)
(* "running" until the coroutine ends, "must_cancel" once cancellation was *)
(* requested and not yet thrown into the coroutine, "done" afterwards.  A  *)
(* coroutine into which CancelledError is thrown lets it pass, or catches  *)
(* it and returns, raises another error or goes on running.                *)

\* asyncio.create_task(coroutine)
create_task(w) ==
    LET t == Len(w.fut) + 1
    IN  Return([w EXCEPT !.fut = Append(w.fut, NewFuture(FALSE)),
                         !.coro = w.coro @@ (t :> "running")],
               TaskV(t))

\* Task.cancel: a request; the loop throws CancelledError into the
\* coroutine at the next step of the task, and the coroutine decides
task_cancel(w, t) ==
    IF w.fut[t].state # "PENDING"
    THEN w
    ELSE [w EXCEPT !.coro[t] = "must_cancel"]

\* a Task.cancelled that is true of every task that is done
task_cancelled_done(w, t) == w.fut[t].state # "PENDING"

\* Task.cancelled
task_cancelled(w, t) == w.fut[t].state = "CANCELLED"

----------------------------------------------------------------------------
(* class Promise *)

\* Promise(f): allocates the next promise of the heap.  A producer f of
\* the model keeps resolve and reject and calls them in a later step.
Promise(w, f) ==
    Return([w EXCEPT !.fut = Append(w.fut, NewFuture(f))],
           PromiseV(Len(w.fut) + 1))

\* a _resolve that stores the result without looking at the state
_resolve_overwrite(w, self, v) ==
    Return(ScheduleCallbacks([w EXCEPT !.fut[self].state = "FINISHED",
                                       !.fut[self].result = v,
                                       !.fut[self].exception = NoneV], self),
           NoneV)

_resolve(w, self, v) == set_result(w, self, v)

\* a _reject that stores the error without looking at the state
_reject_overwrite(w, self, error) ==
    Return(ScheduleCallbacks([w EXCEPT !.fut[self].state = "FINISHED",
                                       !.fut[self].result = NoneV,
                                       !.fut[self].exception = error], self),
           NoneV)

_reject(w, self, error) == set_exception(w, self, error)

\* the two lambdas  lambda res: promise._resolve(res)  and
\* lambda err: promise._reject(err)  of Promise.resolve / _handle_callback
LambdaResolve(promise) ==
    [k |-> "lam_resolve", beh |-> "", val |-> NoneV, tgt |-> promise]
LambdaReject(promise) ==
    [k |-> "lam_reject", beh |-> "", val |-> NoneV, tgt |-> promise]

\* the bound methods new_promise._resolve and new_promise._reject that
\* Promise.any and Promise.all pass to then()
BoundResolve(promise) ==
    [k |-> "bound_resolve", beh |-> "", val |-> NoneV, tgt |-> promise]
BoundReject(promise) ==
    [k |-> "bound_reject", beh |-> "", val |-> NoneV, tgt |-> promise]

\* the closures of call c of a combinator (index counts from 0):
\* partial(_resolve, index) of all, partial(_reject, index) of any,
\* _resolve and _reject of race
AllResolve(c, index) ==
    [k |-> "all_resolve", beh |-> "", val |-> IntV(index), tgt |-> c]
AnyReject(c, index) ==
    [k |-> "any_reject", beh |-> "", val |-> IntV(index), tgt |-> c]
RaceResolve(c) ==
    [k |-> "race_resolve", beh |-> "", val |-> NoneV, tgt |-> c]
RaceReject(c) ==
    [k |-> "race_reject", beh |-> "", val |-> NoneV, tgt |-> c]

\* the two lambdas of all_settled, which return a dict
LambdaFulfilled ==
    [k |-> "dict_fulfilled", beh |-> "", val |-> NoneV, tgt |-> 0]
LambdaRejected ==
    [k |-> "dict_rejected", beh |-> "", val |-> NoneV, tgt |-> 0]

\* def _reject(error) of __await__, made by the call of __await__ in the
\* coroutine that task t runs
AwaitReject(t) ==
    [k |-> "await_reject", beh |-> "", val |-> NoneV, tgt |-> t]

\* the bound method Task.__wakeup of task t, the done-callback that a task
\* adds to the future its coroutine awaits
Wakeup(t) == [k |-> "wakeup", beh |-> "", val |-> NoneV, tgt |-> t]

\* the variables that the closures of one call of all / any / race share:
\* list is results (all) or errors (any), count is resolved or rejected
Closure(kind, new_promise, total) ==
    [kind |-> kind, new_promise |-> new_promise, total |-> total,
     list |-> <<>>, count |-> 0, settled |-> FALSE]

\* list += [None] * (index + 1 - len(list)); list[index] = item
Store(list, index, item) ==
    LET padded == IF Len(list) < index + 1
                  THEN list \o [i \in 1..(index + 1 - Len(list)) |-> NoneV]
                  ELSE list
    IN  [padded EXCEPT ![index + 1] = item]

\* an _resolve of all that appends each result as it arrives
all_resolve_append(w, c, index, result_) ==
    LET results == Append(w.comb[c].list, result_)
        resolved == w.comb[c].count + 1
        w1 == [w EXCEPT !.comb[c].list = results, !.comb[c].count = resolved]
    IN  IF resolved = w.comb[c].total
        THEN _resolve(w1, w.comb[c].new_promise, ListV(results))
        ELSE Return(w1, NoneV)

\* def _resolve(index, result) of Promise.all
all_resolve(w, c, index, result_) ==
    LET results == Store(w.comb[c].list, index, result_)
        resolved == w.comb[c].count + 1
        w1 == [w EXCEPT !.comb[c].list = results, !.comb[c].count = resolved]
    IN  IF resolved = w.comb[c].total
        THEN _resolve(w1, w.comb[c].new_promise, ListV(results))
        ELSE Return(w1, NoneV)

\* an _reject of any that rejects the new promise with the first error
any_reject_eager(w, c, index, error) ==
    _reject(w, w.comb[c].new_promise, error)

\* an _reject of any that appends each error as it arrives
any_reject_append(w, c, index, error) ==
    LET errors == Append(w.comb[c].list, error)
        rejected == w.comb[c].count + 1
        w1 == [w EXCEPT !.comb[c].list = errors, !.comb[c].count = rejected]
    IN  IF rejected = w.comb[c].total
        THEN _reject(w1, w.comb[c].new_promise, AggregateError(errors))
        ELSE Return(w1, NoneV)

\* def _reject(index, error) of Promise.any
any_reject(w, c, index, error) ==
    LET errors == Store(w.comb[c].list, index, error)
        rejected == w.comb[c].count + 1
        w1 == [w EXCEPT !.comb[c].list = errors, !.comb[c].count = rejected]
    IN  IF rejected = w.comb[c].total
        THEN _reject(w1, w.comb[c].new_promise, AggregateError(errors))
        ELSE Return(w1, NoneV)

\* an _resolve of race without the flag: it settles the new promise on
\* every call
race_resolve_unlatched(w, c, result_) ==
    _resolve([w EXCEPT !.comb[c].settled = TRUE],
             w.comb[c].new_promise, result_)

\* def _resolve(result) of Promise.race
race_resolve(w, c, result_) ==
    IF ~w.comb[c].settled
    THEN _resolve([w EXCEPT !.comb[c].settled = TRUE],
                  w.comb[c].new_promise, result_)
    ELSE Return(w, NoneV)

\* def _reject(error) of Promise.race
race_reject(w, c, error) ==
    IF ~w.comb[c].settled
    THEN _reject([w EXCEPT !.comb[c].settled = TRUE],
                 w.comb[c].new_promise, error)
    ELSE Return(w, NoneV)

\* an _reject of __await__ that returns the error
await_reject_return(w, error) == Return(w, error)

\* def _reject(error): raise error
await_reject(w, error) == Raise(w, error)

\* def _finally(result): return on_settled()
FinallyWrapper(on_settled) == [on_settled EXCEPT !.k = "finally"]

\* callback(result): the call of a handler.  A handler written by the user
\* (also the on_settled that _finally calls without argument) is recorded
\* in the log and then returns or raises as it is written to.
Invoke(w, callback, arg, reg, side) ==
    CASE callback.k = "lam_resolve" -> _resolve(w, callback.tgt, arg)
      [] callback.k = "lam_reject" -> _reject(w, callback.tgt, arg)
      [] callback.k = "bound_resolve" -> _resolve(w, callback.tgt, arg)
      [] callback.k = "bound_reject" -> _reject(w, callback.tgt, arg)
      [] callback.k = "all_resolve" ->
           all_resolve(w, callback.tgt, callback.val.n, arg)
      [] callback.k = "any_reject" ->
           any_reject(w, callback.tgt, callback.val.n, arg)
      [] callback.k = "race_resolve" -> race_resolve(w, callback.tgt, arg)
      [] callback.k = "race_reject" -> race_reject(w, callback.tgt, arg)
      [] callback.k = "dict_fulfilled" -> Return(w, DictFulfilled(arg))
      [] callback.k = "dict_rejected" -> Return(w, DictRejected(arg))
      [] callback.k = "await_reject" -> await_reject(w, arg)
      [] OTHER ->
           LET w1 == [w EXCEPT !.log = Append(w.log,
                          [reg |-> reg, side |-> side,
                           arg |-> IF callback.k = "finally" THEN NoneV
                                   ELSE arg])]
           IN  IF callback.beh = "raise" THEN Raise(w1, callback.val)
               ELSE Return(w1, callback.val)

\* a then that puts the new callback in front of the older ones
then_prepend(w, self, on_resolved, on_rejected) ==
    LET w1 == Promise(w, FALSE)
        promise == w1.ret.n
        cb == [on_resolved |-> on_resolved, on_rejected |-> on_rejected,
               promise |-> promise, reg |-> Len(w.regs) + 1]
        w2 == IF w1.fut[self].state # "PENDING"
              THEN [w1 EXCEPT !.ready = <<[cb |-> cb, future |-> self]>>
                                           \o w1.ready]
              ELSE [w1 EXCEPT !.fut[self].callbacks =
                                  <<cb>> \o w1.fut[self].callbacks]
    IN  Return([w2 EXCEPT !.regs = Append(w.regs,
                    [src |-> self, down |-> promise,
                     on_resolved |-> on_resolved,
                     on_rejected |-> on_rejected])],
               PromiseV(promise))

\* a then that calls on_resolved at once when the source is fulfilled
then_inline(w, self, on_resolved, on_rejected) ==
    LET w1 == Promise(w, FALSE)
        promise == w1.ret.n
        reg == Len(w.regs) + 1
        r == result(w1, self)
        w2 == IF w1.fut[self].state = "PENDING" \/ Raises(r)
                    \/ ~callable(on_resolved)
              THEN add_done_callback(w1, self,
                      [on_resolved |-> on_resolved,
                       on_rejected |-> on_rejected,
                       promise |-> promise, reg |-> reg])
              ELSE Invoke(w1, on_resolved, r.ret, reg, "on_resolved")
    IN  Return([w2 EXCEPT !.regs = Append(w.regs,
                    [src |-> self, down |-> promise,
                     on_resolved |-> on_resolved,
                     on_rejected |-> on_rejected])],
               PromiseV(promise))

then(w, self, on_resolved, on_rejected) ==
    LET w1 == Promise(w, FALSE)
        promise == w1.ret.n
        reg == Len(w.regs) + 1
        w2 == add_done_callback(w1, self,
                  [on_resolved |-> on_resolved, on_rejected |-> on_rejected,
                   promise |-> promise, reg |-> reg])
    IN  Return([w2 EXCEPT !.regs = Append(w.regs,
                    [src |-> self, down |-> promise,
                     on_resolved |-> on_resolved,
                     on_rejected |-> on_rejected])],
               PromiseV(promise))

catch(w, self, on_rejected) == then(w, self, Absent, on_rejected)

finally_(w, self, on_settled) ==
    then(w, self, FinallyWrapper(on_settled), FinallyWrapper(on_settled))

\* a cancel that also cancels the task of a bound promise from which the
\* promise was derived by then
cancel_upstream(w, self) ==
    LET srcs == {w.regs[i].src : i \in {j \in 1..Len(w.regs) :
                                          w.regs[j].down = self}}
                   \cap DOMAIN w.task
        w1 == future_cancel(w, self)
    IN  IF srcs = {} THEN w1
        ELSE task_cancel(w1, w1.task[CHOOSE s \in srcs : TRUE])

cancel(w, self) == future_cancel(w, self)

cancelled(w, self) == w.fut[self].state = "CANCELLED"

\* self.__await__(), called by the coroutine of task t, and the task taking
\* the future that it yields: the task waits for the promise that catch
\* returned
__await__(w, self, t) ==
    LET w1 == catch(w, self, AwaitReject(t))
        w2 == add_done_callback(w1, w1.ret.n,
                  [on_resolved |-> Wakeup(t), on_rejected |-> Absent,
                   promise |-> 0, reg |-> 0])
    IN  Return([w2 EXCEPT !.coro[t] = "awaiting"], NoneV)

\* the coroutine  return await promise  of task t goes on with what
\* future.result() gave in world r: it returns the value, or the error
\* leaves it; a CancelledError that leaves a coroutine cancels its task
task_step(r, t) ==
    IF ~Raises(r) THEN set_result(r, t, r.ret)
    ELSE IF r.exc = CancelledError THEN Return(future_cancel(r, t), NoneV)
    ELSE set_exception(r, t, r.exc)

\* Task.__wakeup(future) of task t
task_wakeup(w, t, future) ==
    task_step(result([w EXCEPT !.coro[t] = "done"], future), t)

\* TaskPromise(task)
TaskPromise(w, t) ==
    LET w1 == Promise(w, FALSE)
    IN  Return([w1 EXCEPT !.task = w1.task @@ (w1.ret.n :> t)], w1.ret)

\* TaskPromise.cancel
TaskPromise_cancel(w, self) == task_cancel(w, w.task[self])

\* a TaskPromise.cancelled that asks the promise's own future
TaskPromise_cancelled_own(w, self) == cancelled(w, self)

\* TaskPromise.cancelled
TaskPromise_cancelled(w, self) == task_cancelled(w, w.task[self])

\* p.cancel() and p.cancelled(): Python picks the method of p's class
call_cancel(w, self) ==
    IF self \in DOMAIN w.task THEN TaskPromise_cancel(w, self)
    ELSE cancel(w, self)

call_cancelled(w, self) ==
    IF self \in DOMAIN w.task THEN TaskPromise_cancelled(w, self)
    ELSE cancelled(w, self)

\* a Promise.resolve that does not look for a promise: the new promise is
\* fulfilled with whatever it is given
resolve_no_adoption(w, value) ==
    LET w1 == Promise(w, FALSE)
        w2 == _resolve(w1, w1.ret.n, value)
    IN  IF Raises(w2) THEN w2 ELSE Return(w2, w1.ret)

\* Promise.resolve(value).  The done-callback of a task is
\* partial(Promise._handle_done, None, None, promise): no registration of
\* then() stands behind it (reg 0).
resolve(w, value) ==
    IF isPromise(value)
    THEN LET w1 == Promise(w, FALSE)
             promise == w1.ret.n
             w2 == then(w1, value.n, LambdaResolve(promise),
                        LambdaReject(promise))
         IN  Return(w2, PromiseV(promise))
    ELSE IF isTask(value)
    THEN LET w1 == TaskPromise(w, value.n)
             promise == w1.ret.n
             w2 == add_done_callback(w1, value.n,
                       [on_resolved |-> Absent, on_rejected |-> Absent,
                        promise |-> promise, reg |-> 0])
         IN  Return(w2, PromiseV(promise))
    ELSE LET w1 == Promise(w, FALSE)
             w2 == _resolve(w1, w1.ret.n, value)
         IN  IF Raises(w2) THEN w2 ELSE Return(w2, w1.ret)

\* Promise.reject(reason)
reject(w, reason) ==
    LET w1 == Promise(w, FALSE)
        w2 == _reject(w1, w1.ret.n, reason)
    IN  IF Raises(w2) THEN w2 ELSE Return(w2, w1.ret)

\* the loop of Promise.all from input number index (counted from 0) on:
\* Promise.resolve(promise).then(partial(_resolve, index),
\*                               new_promise._reject)
RECURSIVE all_attach(_, _, _, _)
all_attach(w, promises, index, c) ==
    IF index = Len(promises) THEN w
    ELSE LET w1 == resolve(w, promises[index + 1])
             w2 == then(w1, w1.ret.n, AllResolve(c, index),
                        BoundReject(w.comb[c].new_promise))
         IN  all_attach(w2, promises, index + 1, c)

\* a Promise.all without the test for an empty list after the loop
all_no_final_test(w, promises) ==
    LET w1 == Promise(w, FALSE)
        new_promise == w1.ret.n
        c == Len(w.comb) + 1
        w2 == [w1 EXCEPT !.comb = Append(w.comb,
                             Closure("all", new_promise, Len(promises)))]
    IN  Return(all_attach(w2, promises, 0, c), PromiseV(new_promise))

\* Promise.all(promises)
all(w, promises) ==
    LET w1 == Promise(w, FALSE)
        new_promise == w1.ret.n
        c == Len(w.comb) + 1
        w2 == [w1 EXCEPT !.comb = Append(w.comb,
                             Closure("all", new_promise, Len(promises)))]
        w3 == all_attach(w2, promises, 0, c)
        w4 == IF w3.comb[c].total = w3.comb[c].count
              THEN _resolve(w3, new_promise, ListV(w3.comb[c].list))
              ELSE w3
    IN  IF Raises(w4) THEN w4 ELSE Return(w4, PromiseV(new_promise))

\* the list comprehension of Promise.all_settled:
\* promise.then(lambda value: {...}).catch(lambda reason: {...}) for each
\* input; an input that is no promise has no method then
RECURSIVE all_settled_each(_, _, _)
all_settled_each(w, promises, made) ==
    IF promises = <<>> THEN Return(w, ListV(made))
    ELSE IF ~isPromise(Head(promises)) THEN Raise(w, AttributeError)
    ELSE LET w1 == then(w, Head(promises).n, LambdaFulfilled, Absent)
             w2 == catch(w1, w1.ret.n, LambdaRejected)
         IN  all_settled_each(w2, Tail(promises), Append(made, w2.ret))

\* the same list comprehension without the catch
RECURSIVE all_settled_each_no_catch(_, _, _)
all_settled_each_no_catch(w, promises, made) ==
    IF promises = <<>> THEN Return(w, ListV(made))
    ELSE IF ~isPromise(Head(promises)) THEN Raise(w, AttributeError)
    ELSE LET w1 == then(w, Head(promises).n, LambdaFulfilled, Absent)
         IN  all_settled_each_no_catch(w1, Tail(promises),
                                       Append(made, w1.ret))

\* a Promise.all_settled that does not catch the rejections of its inputs
all_settled_no_catch(w, promises) ==
    LET each == all_settled_each_no_catch(w, promises, <<>>)
    IN  IF Raises(each) THEN each ELSE all(each, each.ret.l)

\* Promise.all_settled(promises)
all_settled(w, promises) ==
    LET each == all_settled_each(w, promises, <<>>)
    IN  IF Raises(each) THEN each ELSE all(each, each.ret.l)

\* the loop of Promise.any:
\* Promise.resolve(promise).then(new_promise._resolve,
\*                               partial(_reject, index))
RECURSIVE any_attach(_, _, _, _)
any_attach(w, promises, index, c) ==
    IF index = Len(promises) THEN w
    ELSE LET w1 == resolve(w, promises[index + 1])
             w2 == then(w1, w1.ret.n, BoundResolve(w.comb[c].new_promise),
                        AnyReject(c, index))
         IN  any_attach(w2, promises, index + 1, c)

\* Promise.any(promises)
any(w, promises) ==
    LET w1 == Promise(w, FALSE)
        new_promise == w1.ret.n
        c == Len(w.comb) + 1
        w2 == [w1 EXCEPT !.comb = Append(w.comb,
                             Closure("any", new_promise, Len(promises)))]
        w3 == any_attach(w2, promises, 0, c)
        w4 == IF w3.comb[c].total = w3.comb[c].count
              THEN _reject(w3, new_promise, AggregateError(w3.comb[c].list))
              ELSE w3
    IN  IF Raises(w4) THEN w4 ELSE Return(w4, PromiseV(new_promise))

\* the loop of Promise.race:
\* Promise.resolve(promise).then(_resolve, _reject)
RECURSIVE race_attach(_, _, _, _)
race_attach(w, promises, index, c) ==
    IF index = Len(promises) THEN w
    ELSE LET w1 == resolve(w, promises[index + 1])
             w2 == then(w1, w1.ret.n, RaceResolve(c), RaceReject(c))
         IN  race_attach(w2, promises, index + 1, c)

\* a Promise.race with the test of all and any after the loop: it settles
\* the new promise when there is no input
race_final_test(w, promises) ==
    LET w1 == Promise(w, FALSE)
        new_promise == w1.ret.n
        c == Len(w.comb) + 1
        w2 == [w1 EXCEPT !.comb = Append(w.comb,
                             Closure("race", new_promise, Len(promises)))]
        w3 == race_attach(w2, promises, 0, c)
        w4 == IF w3.comb[c].total = w3.comb[c].count
              THEN _resolve(w3, new_promise, NoneV)
              ELSE w3
    IN  Return(w4, PromiseV(new_promise))

\* Promise.race(promises)
race(w, promises) ==
    LET w1 == Promise(w, FALSE)
        new_promise == w1.ret.n
        c == Len(w.comb) + 1
        w2 == [w1 EXCEPT !.comb = Append(w.comb,
                             Closure("race", new_promise, Len(promises)))]
    IN  Return(race_attach(w2, promises, 0, c), PromiseV(new_promise))

\* the wrapper that promisify(func) returns, called by user code
promisify(w, func) ==
    IF func.beh = "raise" THEN reject(w, func.val)
    ELSE IF func.beh = "coroutine"
    THEN LET w1 == create_task(w)
         IN  resolve(w1, w1.ret)
    ELSE resolve(w, func.val)

\* a _handle_callback that fulfils the downstream promise whenever the
\* handler is missing, so that a rejection is swallowed
_handle_callback_swallow(w, res, callback, promise, resolve_, reg, side) ==
    IF callable(callback)
    THEN LET c == Invoke(w, callback, res, reg, side)
             body == IF Raises(c) THEN c
                     ELSE IF isPromise(c.ret)
                     THEN then(c, c.ret.n, LambdaResolve(promise),
                               LambdaReject(promise))
                     ELSE _resolve(c, promise, c.ret)
         IN  IF Raises(body) THEN _reject(body, promise, body.exc)
             ELSE Return(body, NoneV)
    ELSE _resolve(w, promise, res)

\* a _handle_callback that drops the exception of a handler and fulfils
\* the downstream promise with None
_handle_callback_drop_error(w, res, callback, promise, resolve_, reg, side) ==
    IF callable(callback)
    THEN LET c == Invoke(w, callback, res, reg, side)
             body == IF Raises(c) THEN c
                     ELSE IF isPromise(c.ret)
                     THEN then(c, c.ret.n, LambdaResolve(promise),
                               LambdaReject(promise))
                     ELSE _resolve(c, promise, c.ret)
         IN  IF Raises(body) THEN _resolve(body, promise, NoneV)
             ELSE Return(body, NoneV)
    ELSE IF resolve_ THEN _resolve(w, promise, res)
    ELSE _reject(w, promise, res)

\* a _handle_callback without the isinstance test: a promise returned by
\* the handler becomes the value of the downstream promise
_handle_callback_no_adoption(w, res, callback, promise, resolve_, reg, side) ==
    IF callable(callback)
    THEN LET c == Invoke(w, callback, res, reg, side)
             body == IF Raises(c) THEN c
                     ELSE _resolve(c, promise, c.ret)
         IN  IF Raises(body) THEN _reject(body, promise, body.exc)
             ELSE Return(body, NoneV)
    ELSE IF resolve_ THEN _resolve(w, promise, res)
    ELSE _reject(w, promise, res)

\* the try block of _handle_callback after the call of the handler, c
\* being the world in which the call ended
_handle_callback_try(c, promise) ==
    IF Raises(c) THEN c
    ELSE IF isPromise(c.ret)
    THEN then(c, c.ret.n, LambdaResolve(promise), LambdaReject(promise))
    ELSE _resolve(c, promise, c.ret)

\* except BaseException as error: promise._reject(error), body being the
\* world in which the try block ended
_handle_callback_except(body, promise) ==
    IF Raises(body) THEN _reject(body, promise, body.exc)
    ELSE Return(body, NoneV)

_handle_callback(w, res, callback, promise, resolve_, reg, side) ==
    IF callable(callback)
    THEN _handle_callback_except(
             _handle_callback_try(Invoke(w, callback, res, reg, side),
                                  promise),
             promise)
    ELSE IF resolve_ THEN _resolve(w, promise, res)
    ELSE _reject(w, promise, res)

\* the except branch of _handle_done, h being the world in which
\* _handle_callback for on_resolved ended
_handle_done_except(h, on_rejected, promise, reg) ==
    IF Raises(h)
    THEN _handle_callback(h, h.exc, on_rejected, promise, FALSE,
                          reg, "on_rejected")
    ELSE h

\* r is the world in which future.result() ended
_handle_done_result(r, on_resolved, on_rejected, promise, reg) ==
    IF Raises(r)
    THEN _handle_callback(r, r.exc, on_rejected, promise, FALSE,
                          reg, "on_rejected")
    ELSE _handle_done_except(
             _handle_callback(r, r.ret, on_resolved, promise, TRUE,
                              reg, "on_resolved"),
             on_rejected, promise, reg)

_handle_done(w, on_resolved, on_rejected, promise, future, reg) ==
    _handle_done_result(result(w, future), on_resolved, on_rejected,
                        promise, reg)

----------------------------------------------------------------------------
(* The program: user code calling the API, and the event loop *)

\* the handlers that the library passes to then() and catch()
LibraryHandlers ==
    {"lam_resolve", "lam_reject", "bound_resolve", "bound_reject",
     "all_resolve", "any_reject", "race_resolve", "race_reject",
     "dict_fulfilled", "dict_rejected", "await_reject"}

\* the handlers that the combinators put on Promise.resolve(promise)
CombinatorHandlers ==
    {"bound_resolve", "bound_reject", "all_resolve", "any_reject",
     "race_resolve", "race_reject"}

\* the promises user code holds: all but the ones that the library gets
\* from then() or catch() and drops, and the Promise.resolve(promise) that
\* a combinator makes of each input
Held(w) ==
    {p \in Promises(w) :
        \A i \in 1..Len(w.regs) :
            /\ w.regs[i].down = p =>
                  /\ w.regs[i].on_resolved.k \notin LibraryHandlers
                  /\ w.regs[i].on_rejected.k \notin LibraryHandlers
            /\ w.regs[i].src = p =>
                  w.regs[i].on_resolved.k \notin CombinatorHandlers}

\* promises constructed by user code with Promise(f): the only ones whose
\* resolve / reject functions user code holds
Constructed(w) == {p \in Promises(w) : w.fut[p].f}

\* values and errors user code settles promises with
UserValues(w) == {IntV(1)} \cup {PromiseV(q) : q \in Held(w)}
UserErrors == {RuntimeError(1)}

\* handlers user code passes to then / catch / finally_
UserHandlers(w) ==
    {UserReturn(IntV(2)), UserRaise(RuntimeError(2))}
      \cup {UserReturn(PromiseV(q)) : q \in Held(w)}
Handlers(w) == {Absent, NonCallable} \cup UserHandlers(w)

\* the argument pairs of then(): one handler, or two that are both called
\* when misused
ThenArgs(w) ==
    (Handlers(w) \X {Absent, NonCallable})
      \cup ({Absent, NonCallable} \X Handlers(w))
      \cup {<<UserReturn(IntV(2)), UserRaise(RuntimeError(2))>>,
            <<UserRaise(RuntimeError(2)), UserReturn(IntV(2))>>}

MayCreate == Cardinality(Held(World)) < MaxPromises

Commit(w) ==
    /\ fut' = w.fut
    /\ ready' = w.ready
    /\ log' = w.log
    /\ regs' = w.regs
    /\ task' = w.task
    /\ coro' = w.coro
    /\ comb' = w.comb
    /\ raised' = w.exc

Init ==
    /\ fut = <<>>
    /\ ready = <<>>
    /\ log = <<>>
    /\ regs = <<>>
    /\ done = {}
    /\ raised = NoneV
    /\ escaped = {}
    /\ task = <<>>
    /\ coro = <<>>
    /\ comb = <<>>
    /\ hist = <<>>

\* p = Promise(f), f keeping resolve and reject for later.  Constructing a
\* pending promise commutes with every other step, so the program
\* constructs its promises first.
New ==
    /\ MayCreate
    /\ \A p \in Promises(World) : fut[p] = NewFuture(TRUE)
    /\ Commit(Promise(World, TRUE))
    /\ UNCHANGED <<done, escaped, hist>>

\* resolve(v), the first argument of a producer f, called by user code
Resolve ==
    \E p \in Constructed(World) : \E v \in UserValues(World) \ {PromiseV(p)} :
        /\ Commit(_resolve(World, p, v))
        /\ UNCHANGED <<done, escaped, hist>>

\* reject(e), the second argument of a producer f, called by user code
Reject ==
    \E p \in Constructed(World) : \E e \in UserErrors :
        /\ Commit(_reject(World, p, e))
        /\ UNCHANGED <<done, escaped, hist>>

Then ==
    /\ MayCreate
    /\ \E p \in Held(World) : \E a \in ThenArgs(World) :
           Commit(then(World, p, a[1], a[2]))
    /\ UNCHANGED <<done, escaped, hist>>

Catch ==
    /\ MayCreate
    /\ \E p \in Held(World) : \E h \in Handlers(World) :
           Commit(catch(World, p, h))
    /\ UNCHANGED <<done, escaped, hist>>

Finally ==
    /\ MayCreate
    /\ \E p \in Held(World) : \E h \in UserHandlers(World) :
           Commit(finally_(World, p, h))
    /\ UNCHANGED <<done, escaped, hist>>

\* p.cancel() called by user code
CancelOf(p) ==
    /\ \/ fut[p].state # "PENDING"
       \/ Cardinality({q \in Promises(World) :
                          fut[q].state = "CANCELLED"}) < MaxCancels
    /\ Commit(call_cancel(World, p))
    /\ UNCHANGED <<done, escaped, hist>>

Cancel == \E p \in Held(World) : CancelOf(p)

\* Promise.resolve(v) called by user code
StaticResolveOf(v) ==
    /\ MayCreate
    /\ Commit(resolve(World, v))
    /\ UNCHANGED <<done, escaped, hist>>

StaticResolve == \E v \in UserValues(World) : StaticResolveOf(v)

\* Promise.reject(e) called by user code
StaticRejectOf(e) ==
    /\ MayCreate
    /\ Commit(reject(World, e))
    /\ UNCHANGED <<done, escaped, hist>>

StaticReject == \E e \in UserErrors : StaticRejectOf(e)

\* the state after the loop has run the callback of registration reg,
\* which ended in world w
Ran(w, reg) ==
    /\ fut' = w.fut
    /\ ready' = w.ready
    /\ log' = w.log
    /\ regs' = w.regs
    /\ task' = w.task
    /\ coro' = w.coro
    /\ comb' = w.comb
    /\ done' = done \cup {reg}
    /\ escaped' = IF Raises(w)
                  THEN escaped \cup {[reg |-> reg, exc |-> w.exc]}
                  ELSE escaped
    /\ UNCHANGED <<raised, hist>>

\* the loop calls the scheduled callback h: the wakeup of a task, or the
\* partial of Promise._handle_done
Run(h) ==
    IF h.cb.on_resolved.k = "wakeup"
    THEN Ran(task_wakeup([World EXCEPT !.ready = Tail(ready)],
                         h.cb.on_resolved.tgt, h.future),
             h.cb.reg)
    ELSE Ran(_handle_done([World EXCEPT !.ready = Tail(ready)],
                          h.cb.on_resolved, h.cb.on_rejected,
                          h.cb.promise, h.future, h.cb.reg),
             h.cb.reg)

\* one turn of the event loop: the oldest scheduled callback runs
RunOnce ==
    /\ ready # <<>>
    /\ Run(Head(ready))

Next ==
    \/ New
    \/ Resolve
    \/ Reject
    \/ Then
    \/ Catch
    \/ Finally
    \/ Cancel
    \/ StaticResolve
    \/ StaticReject
    \/ RunOnce

Spec == Init /\ [][Next]_vars

----------------------------------------------------------------------------
(* The program with coroutines: promisified functions, the tasks that run  *)
(* them and the promises bound to the tasks                                *)

Tasks(w) == DOMAIN w.coro

\* what a promisified function does when it is called
UserFunctions == {UserCoroutine, UserReturn(IntV(1)), UserRaise(RuntimeError(1))}

\* user code calls a promisified function
Promisify ==
    /\ MayCreate
    /\ \E func \in UserFunctions :
           /\ func = UserCoroutine => Cardinality(Tasks(World)) < MaxTasks
           /\ Commit(promisify(World, func))
    /\ UNCHANGED <<done, escaped, hist>>

\* the end of a step of a task: its future and the loop's queue change
TaskEnds(w) ==
    /\ fut' = w.fut
    /\ ready' = w.ready
    /\ coro' = w.coro
    /\ UNCHANGED <<log, regs, done, raised, escaped, task, comb, hist>>

\* the loop runs a step of task t and its coroutine returns v. When
\* Task.cancel was called before, the step first throws CancelledError into
\* the coroutine: a coroutine that catches it can return v all the same,
\* and the task then ends finished, not cancelled
TaskReturn ==
    \E t \in Tasks(World) : \E v \in {IntV(1)} :
        /\ coro[t] \in {"running", "must_cancel"}
        /\ TaskEnds([set_result(World, t, v) EXCEPT !.coro[t] = "done"])

\* the loop runs a step of task t and its coroutine raises e, also as its
\* answer to the CancelledError that a step after Task.cancel throws into it
TaskRaise ==
    \E t \in Tasks(World) : \E e \in UserErrors :
        /\ coro[t] \in {"running", "must_cancel"}
        /\ TaskEnds([set_exception(World, t, e) EXCEPT !.coro[t] = "done"])

\* the loop runs task t after Task.cancel: CancelledError is thrown into
\* the coroutine, which lets it pass, and the task ends cancelled. This is
\* one of the outcomes of that step: TaskReturn, TaskRaise and TaskSwallows
\* are the others
TaskCancelled ==
    \E t \in Tasks(World) :
        /\ coro[t] = "must_cancel"
        /\ TaskEnds([future_cancel(World, t) EXCEPT !.coro[t] = "done"])

\* the loop runs task t after Task.cancel: CancelledError is thrown into
\* the coroutine, which catches it and goes on to wait for something else;
\* the request is used up and the task is pending as before
TaskSwallows ==
    \E t \in Tasks(World) :
        /\ coro[t] = "must_cancel"
        /\ TaskEnds([World EXCEPT !.coro[t] = "running"])

\* the heap indices that a task or a promise of FairCoro can have
HeapIds == 1..(MaxPromises + MaxTasks)

\* the step that Task.cancel schedules for task t: the loop throws
\* CancelledError into the coroutine, with any of the outcomes above
TaskThrow(t) ==
    /\ t \in Tasks(World)
    /\ coro[t] = "must_cancel"
    /\ (TaskCancelled \/ TaskReturn \/ TaskRaise \/ TaskSwallows)
    /\ coro'[t] # "must_cancel"

NextTask ==
    \/ New
    \/ Resolve
    \/ Reject
    \/ Catch
    \/ Cancel
    \/ Promisify
    \/ TaskReturn
    \/ TaskRaise
    \/ TaskCancelled
    \/ TaskSwallows
    \/ RunOnce

SpecTask == Init /\ [][NextTask]_vars

\* the part of that program that deals with coroutines only, with a loop
\* that keeps running what is scheduled: callbacks and the steps of tasks
\* whose cancellation was requested
NextCoro ==
    \/ Promisify
    \/ TaskReturn
    \/ TaskRaise
    \/ TaskCancelled
    \/ TaskSwallows
    \/ Cancel
    \/ RunOnce

FairCoro ==
    /\ Init /\ [][NextCoro]_vars
    /\ WF_vars(RunOnce)
    /\ \A t \in HeapIds : WF_vars(TaskThrow(t))

----------------------------------------------------------------------------
(* The program with chains: user code constructs promises, derives chains  *)
(* from them with then / catch / finally_ before and after it settles      *)
(* them, and the loop keeps running what is scheduled                      *)

\* the promises user code constructed: the first is the head of the chain,
\* the others are promises for handlers to return
ChainHead(w) == CHOOSE p \in Constructed(w) : \A q \in Constructed(w) : p <= q
Returnable(w) == Constructed(w) \ {ChainHead(w)}

\* the registrations user code made
UserRegs(w) ==
    {r \in 1..Len(w.regs) :
        /\ w.regs[r].on_resolved.k \notin LibraryHandlers
        /\ w.regs[r].on_rejected.k \notin LibraryHandlers}

\* the last promise of the chain
Tip(w) ==
    IF UserRegs(w) = {} THEN ChainHead(w)
    ELSE w.regs[CHOOSE r \in UserRegs(w) :
                    \A s \in UserRegs(w) : s <= r].down

\* handlers of the chain: they return a value, raise, or return a promise
\* that user code constructed
ThenHandlers(w) ==
    {UserRaise(RuntimeError(2))}
      \cup {UserReturn(PromiseV(q)) : q \in Returnable(w)}
CatchHandlers(w) ==
    {UserReturn(IntV(2))}
      \cup {UserReturn(PromiseV(q)) : q \in Returnable(w)}

\* p = Promise(f), before anything else happens
NewRoot ==
    /\ Cardinality(Constructed(World)) < MaxRoots
    /\ Commit(Promise(World, TRUE))
    /\ UNCHANGED <<done, escaped, hist>>

AllConstructed == Cardinality(Constructed(World)) = MaxRoots

ResolveRoot ==
    \E p \in Constructed(World) :
        /\ AllConstructed
        /\ fut[p].state = "PENDING"
        /\ Commit(_resolve(World, p, IntV(1)))
        /\ UNCHANGED <<done, escaped, hist>>

RejectRoot ==
    \E p \in Constructed(World) :
        /\ AllConstructed
        /\ fut[p].state = "PENDING"
        /\ Commit(_reject(World, p, RuntimeError(1)))
        /\ UNCHANGED <<done, escaped, hist>>

MayChain == AllConstructed /\ Cardinality(UserRegs(World)) < MaxChain

ChainThen ==
    /\ MayChain
    /\ \E h \in ThenHandlers(World) :
           Commit(then(World, Tip(World), h, Absent))
    /\ UNCHANGED <<done, escaped, hist>>

ChainCatch ==
    /\ MayChain
    /\ \E h \in CatchHandlers(World) :
           Commit(catch(World, Tip(World), h))
    /\ UNCHANGED <<done, escaped, hist>>

ChainFinally ==
    /\ MayChain
    /\ Commit(finally_(World, Tip(World), UserReturn(IntV(2))))
    /\ UNCHANGED <<done, escaped, hist>>

NextChain ==
    \/ NewRoot
    \/ ResolveRoot
    \/ RejectRoot
    \/ ChainThen
    \/ ChainCatch
    \/ ChainFinally
    \/ RunOnce

SpecChain == Init /\ [][NextChain]_vars

\* the event loop runs every callback that is scheduled
FairChain == SpecChain /\ WF_vars(RunOnce)

----------------------------------------------------------------------------
(* The program with observers: coroutines that await a promise user code   *)
(* constructed, each one the body  return await p  of its own task         *)

\* a coroutine starts and runs up to its  await p
AwaitOf(p) ==
    /\ Cardinality(Tasks(World)) < MaxTasks
    /\ Commit(__await__(create_task(World), p, Len(fut) + 1))
    /\ UNCHANGED <<done, escaped, hist>>

Await == \E p \in Held(World) : AwaitOf(p)

NextAwait ==
    \/ New
    \/ Resolve
    \/ Reject
    \/ Cancel
    \/ Await
    \/ RunOnce

SpecAwait == Init /\ [][NextAwait]_vars

----------------------------------------------------------------------------
(* The program with combinators: user code constructs promises, settles    *)
(* them before and after it passes them to all / all_settled / any / race. *)
(* hist keeps the order of these events, which the heap does not show.     *)

SettleEvent(p) == [ev |-> "settle", kind |-> "", promises |-> <<>>, p |-> p]

\* a call of a combinator; out is the promise it returned, 0 if it raised
CallEvent(kind, promises, out) ==
    [ev |-> "call", kind |-> kind, promises |-> promises, p |-> out]

\* a value that is no promise, as an input of a combinator
RawValues == {IntV(0)}

InputValues(w) == {PromiseV(p) : p \in Constructed(w)} \cup RawValues

InputLists(w) == UNION {[1..n -> InputValues(w)] : n \in 0..MaxInputs}

CallsMade == {i \in 1..Len(hist) : hist[i].ev = "call"}

RECURSIVE InputsGiven(_)
InputsGiven(h) ==
    IF h = <<>> THEN 0 ELSE Len(Head(h).promises) + InputsGiven(Tail(h))

MayCall(promises) ==
    /\ Cardinality(CallsMade) < MaxCalls
    /\ InputsGiven(hist) + Len(promises) <= MaxInputs

\* p = Promise(f), before anything else happens
NewInput ==
    /\ Cardinality(Constructed(World)) < MaxInputs
    /\ hist = <<>>
    /\ Commit(Promise(World, TRUE))
    /\ UNCHANGED <<done, escaped, hist>>

\* user code settles a pending promise it constructed; the value or the
\* error tells which promise it was
ResolveInput ==
    \E p \in Constructed(World) :
        /\ fut[p].state = "PENDING"
        /\ Commit(_resolve(World, p, IntV(p)))
        /\ hist' = Append(hist, SettleEvent(p))
        /\ UNCHANGED <<done, escaped>>

RejectInput ==
    \E p \in Constructed(World) :
        /\ fut[p].state = "PENDING"
        /\ Commit(_reject(World, p, RuntimeError(p)))
        /\ hist' = Append(hist, SettleEvent(p))
        /\ UNCHANGED <<done, escaped>>

CancelInput ==
    \E p \in Constructed(World) :
        /\ fut[p].state = "PENDING"
        /\ Commit(call_cancel(World, p))
        /\ hist' = Append(hist, SettleEvent(p))
        /\ UNCHANGED <<done, escaped>>

\* the return of a call of a combinator with world w
Called_(kind, promises, w) ==
    /\ Commit(w)
    /\ hist' = Append(hist, CallEvent(kind, promises,
                                      IF Raises(w) THEN 0 ELSE w.ret.n))
    /\ UNCHANGED <<done, escaped>>

CallAll ==
    \E promises \in InputLists(World) :
        MayCall(promises) /\ Called_("all", promises, all(World, promises))

CallAllSettled ==
    \E promises \in InputLists(World) :
        /\ MayCall(promises)
        /\ Called_("all_settled", promises, all_settled(World, promises))

CallAny ==
    \E promises \in InputLists(World) :
        MayCall(promises) /\ Called_("any", promises, any(World, promises))

CallRace ==
    \E promises \in InputLists(World) :
        MayCall(promises) /\ Called_("race", promises, race(World, promises))

NextComb ==
    \/ NewInput
    \/ ResolveInput
    \/ RejectInput
    \/ CancelInput
    \/ CallAll
    \/ CallAllSettled
    \/ CallAny
    \/ CallRace
    \/ RunOnce

SpecComb == Init /\ [][NextComb]_vars

----------------------------------------------------------------------------
(* The program with derived promises: user code gets bound promises from a *)
(* promisified function, derives promises from them with catch,            *)
(* Promise.resolve and the combinators, and cancels what it holds          *)

BoundHeld(w) == Held(w) \cap DOMAIN w.task

\* the lists of bound promises that user code passes to a combinator
BoundLists(w) ==
    UNION {[1..n -> {PromiseV(b) : b \in BoundHeld(w)}] : n \in 1..MaxInputs}

\* Promise.resolve(b) of a bound promise b
ResolveBound ==
    \E b \in BoundHeld(World) : StaticResolveOf(PromiseV(b))

CallAllOnBound ==
    \E promises \in BoundLists(World) :
        /\ MayCreate /\ MayCall(promises)
        /\ Called_("all", promises, all(World, promises))

CallAnyOnBound ==
    \E promises \in BoundLists(World) :
        /\ MayCreate /\ MayCall(promises)
        /\ Called_("any", promises, any(World, promises))

CallRaceOnBound ==
    \E promises \in BoundLists(World) :
        /\ MayCreate /\ MayCall(promises)
        /\ Called_("race", promises, race(World, promises))

NextDerived ==
    \/ Promisify
    \/ Catch
    \/ ResolveBound
    \/ CallAllOnBound
    \/ CallAnyOnBound
    \/ CallRaceOnBound
    \/ Cancel
    \/ TaskReturn
    \/ TaskRaise
    \/ TaskCancelled
    \/ TaskSwallows
    \/ RunOnce

SpecDerived == Init /\ [][NextDerived]_vars

----------------------------------------------------------------------------
(* The state of a promise as its users see it *)

Pending == [kind |-> "Pending", val |-> NoneV]
Fulfilled(v) == [kind |-> "Fulfilled", val |-> v]
Rejected(e) == [kind |-> "Rejected", val |-> e]

\* a cancelled promise rejects with asyncio.CancelledError
Outcome(f) ==
    CASE f.state = "PENDING" -> Pending
      [] f.state = "CANCELLED" -> Rejected(CancelledError)
      [] f.exception # NoneV -> Rejected(f.exception)
      [] OTHER -> Fulfilled(f.result)

Settled(p) == fut[p].state # "PENDING"

----------------------------------------------------------------------------
(* Properties *)

\* C1 (single settlement): once a promise has left Pending, no step changes
\* its outcome, and every _resolve or _reject on it raises
\* InvalidStateError and leaves the heap as it was.
SingleSettlement ==
    [][\A p \in Promises(World) :
          Settled(p) =>
            /\ Outcome(fut'[p]) = Outcome(fut[p])
            /\ \A v \in UserValues(World) \cup UserErrors :
                 /\ _resolve(World, p, v).exc = InvalidStateError
                 /\ _resolve(World, p, v).fut = fut
                 /\ _reject(World, p, v).exc = InvalidStateError
                 /\ _reject(World, p, v).fut = fut]_vars

\* a settled promise on which user code has just tried resolve or reject
\* a second time
SecondSettlementTried ==
    /\ raised = InvalidStateError
    /\ \E p \in Constructed(World) : fut[p].state = "FINISHED"

\* C2 (handler order): the handlers registered on one promise are called in
\* the order of their registration.
HandlerOrder ==
    \A i, j \in DOMAIN log :
        (i < j /\ regs[log[i].reg].src = regs[log[j].reg].src)
            => log[i].reg <= log[j].reg

\* the handlers of two registrations made on one promise have both been
\* called
TwoHandlersCalled ==
    \E i, j \in DOMAIN log :
        /\ i < j
        /\ log[i].reg # log[j].reg
        /\ regs[log[i].reg].src = regs[log[j].reg].src

\* C3 (no inline invocation): a call of then, catch or finally_ calls no
\* handler, also on a settled promise; handlers are only called by a turn of
\* the event loop.
NoInlineInvocation ==
    [][/\ (Then \/ Catch \/ Finally) => (log' = log /\ done' = done)
       /\ log' # log => (ready # <<>> /\ done' # done)]_vars

\* a handler registered on a promise that was already settled waits in the
\* loop's queue, not yet called
RegisteredOnSettled ==
    \E i \in DOMAIN ready :
        /\ callable(ready[i].cb.on_resolved)
        /\ ready[i].cb.on_resolved.k = "user"
        /\ fut[ready[i].future].state = "FINISHED"
        /\ fut[ready[i].future].exception = NoneV
        /\ fut[ready[i].future].callbacks = <<>>
        /\ \A j \in DOMAIN log : log[j].reg # ready[i].cb.reg

\* the handler of registration r that the log entry e records a call of
Called(e) ==
    IF e.side = "on_resolved" THEN regs[e.reg].on_resolved
    ELSE regs[e.reg].on_rejected

\* the handler of registration r that the outcome of its source selects
Selected(r) ==
    IF Outcome(fut[regs[r].src]).kind = "Fulfilled" THEN regs[r].on_resolved
    ELSE regs[r].on_rejected

\* the downstream promise of registration r was not cancelled by its holder
NotCancelled(r) == fut[regs[r].down].state # "CANCELLED"

\* C4 (each handler fires once): a registration has at most one handler
\* call; on_resolved is only called when the source fulfilled and
\* on_rejected only when it rejected.
EachHandlerFiresOnce ==
    \A r \in DOMAIN regs :
        /\ Cardinality({i \in DOMAIN log : log[i].reg = r}) <= 1
        /\ \A i \in DOMAIN log :
             log[i].reg = r =>
               Outcome(fut[regs[r].src]).kind =
                  (IF log[i].side = "on_resolved" THEN "Fulfilled"
                   ELSE "Rejected")

\* C5 (pass-through): when the selected handler of a registration is absent
\* or not callable, the downstream promise gets the outcome of the source
\* once the registration is delivered: a fulfilment stays a fulfilment with
\* the same value, a rejection a rejection with the same error.  (A
\* downstream promise that its holder cancelled was settled by cancel().)
PassThrough ==
    \A r \in done :
        (~callable(Selected(r)) /\ NotCancelled(r))
            => Outcome(fut[regs[r].down]) = Outcome(fut[regs[r].src])

\* a rejection has passed through a chain of two registrations without
\* rejection handler, the first of them with a fulfilment handler
PassedThrough ==
    \E r1, r2 \in done :
        /\ regs[r2].src = regs[r1].down
        /\ callable(regs[r1].on_resolved)
        /\ ~callable(regs[r1].on_rejected)
        /\ ~callable(regs[r2].on_rejected)
        /\ Outcome(fut[regs[r1].src]) = Rejected(RuntimeError(1))
        /\ Outcome(fut[regs[r2].down]) = Rejected(RuntimeError(1))

\* C6 (handler outcome): the downstream promise is rejected with what the
\* called handler raised and fulfilled with the non-promise value that it
\* returned, for on_resolved and on_rejected alike.  (A downstream promise
\* that its holder cancelled was settled by cancel().)
HandlerOutcome ==
    \A i \in DOMAIN log :
        NotCancelled(log[i].reg) =>
            LET h == Called(log[i])
                down == fut[regs[log[i].reg].down]
            IN  /\ h.beh = "raise" => Outcome(down) = Rejected(h.val)
                /\ (h.beh = "return" /\ ~isPromise(h.val))
                       => Outcome(down) = Fulfilled(h.val)

\* an on_rejected handler has returned a value and an on_resolved handler
\* has raised
RecoveredAndRaised ==
    /\ \E i \in DOMAIN log :
         /\ log[i].side = "on_rejected"
         /\ Called(log[i]) = UserReturn(IntV(2))
         /\ Outcome(fut[regs[log[i].reg].down]) = Fulfilled(IntV(2))
    /\ \E i \in DOMAIN log :
         /\ log[i].side = "on_resolved"
         /\ Called(log[i]) = UserRaise(RuntimeError(2))
         /\ Outcome(fut[regs[log[i].reg].down]) = Rejected(RuntimeError(2))

\* C7 (adoption): when the called handler returned promise q, the
\* downstream promise is pending as long as q is, has the outcome of q when
\* it is settled, and is settled when q is and the loop has nothing left to
\* run.  (A downstream promise that its holder cancelled was settled by
\* cancel().)
Adoption ==
    \A i \in DOMAIN log :
        LET h == Called(log[i]) IN
        (h.beh = "return" /\ isPromise(h.val) /\ NotCancelled(log[i].reg))
            => LET down == Outcome(fut[regs[log[i].reg].down])
                   q == Outcome(fut[h.val.n])
               IN  /\ down # Pending => down = q
                   /\ (q # Pending /\ ready = <<>>) => down = q

\* an on_rejected handler returned a promise constructed by user code, and
\* the downstream promise has adopted the value that promise was fulfilled
\* with
AdoptedFulfilment ==
    \E i \in DOMAIN log :
        LET h == Called(log[i]) IN
        /\ h.beh = "return" /\ isPromise(h.val)
        /\ log[i].side = "on_rejected"
        /\ fut[h.val.n].f
        /\ Outcome(fut[h.val.n]) = Fulfilled(IntV(1))
        /\ Outcome(fut[regs[log[i].reg].down]) = Fulfilled(IntV(1))

\* C8 (flattening): a promise returned by then whose handler returned a
\* promise is never fulfilled with a promise object.
Flattening ==
    \A i \in DOMAIN log :
        LET h == Called(log[i]) IN
        (h.beh = "return" /\ isPromise(h.val))
            => LET down == Outcome(fut[regs[log[i].reg].down])
               IN  down.kind = "Fulfilled" => ~isPromise(down.val)

\* the registrations by which Promise.resolve(p) lets a new promise follow
\* p: their handlers are the two lambdas, and the promise these settle was
\* not made by then()
Wrappers ==
    {r \in DOMAIN regs :
        /\ regs[r].on_resolved.k = "lam_resolve"
        /\ \A r2 \in DOMAIN regs : regs[r2].down # regs[r].on_resolved.tgt}

\* C9 (static constructors): Promise.resolve(v) of a non-promise v returns
\* a promise fulfilled with v and Promise.reject(e) one rejected with e;
\* Promise.resolve(p) of a promise p returns a pending promise, which is
\* never settled otherwise than p and has the outcome of p once the loop
\* has delivered the settlement of p.  (A promise that its holder cancelled
\* was settled by cancel().)
StaticConstructors ==
    /\ [][/\ \A v \in UserValues(World) :
               StaticResolveOf(v) =>
                 /\ Len(fut') > Len(fut)
                 /\ Outcome(fut'[Len(fut) + 1]) =
                      (IF isPromise(v) THEN Pending ELSE Fulfilled(v))
                 /\ isPromise(v) =>
                      \E r \in DOMAIN regs' :
                          /\ regs'[r].src = v.n
                          /\ regs'[r].on_resolved = LambdaResolve(Len(fut) + 1)
                          /\ regs'[r].on_rejected = LambdaReject(Len(fut) + 1)
          /\ \A e \in UserErrors :
               StaticRejectOf(e) =>
                 /\ Len(fut') > Len(fut)
                 /\ Outcome(fut'[Len(fut) + 1]) = Rejected(e)]_vars
    /\ [](\A r \in Wrappers :
             LET new == regs[r].on_resolved.tgt
                 p == regs[r].src
             IN  fut[new].state # "CANCELLED" =>
                   /\ Settled(new) => Outcome(fut[new]) = Outcome(fut[p])
                   /\ (r \in done \/ (Settled(p) /\ ready = <<>>))
                         => Outcome(fut[new]) = Outcome(fut[p]))

\* Promise.resolve(Promise.resolve(p)) has got the rejection of p through
\* both wrappers
NestedResolveSettled ==
    \E r1, r2 \in Wrappers :
        /\ regs[r2].src = regs[r1].on_resolved.tgt
        /\ r1 \in done /\ r2 \in done
        /\ Outcome(fut[regs[r1].src]) = Rejected(RuntimeError(1))
        /\ Outcome(fut[regs[r2].on_resolved.tgt]) = Rejected(RuntimeError(1))

\* C10 (finally_ keeps the outcome): when the handler of finally_ returns a
\* non-promise value, the promise that finally_ returned gets the outcome
\* of the promise it was called on.
FinallyKeepsOutcome ==
    \A r \in done :
        (/\ regs[r].on_resolved.k = "finally"
         /\ regs[r].on_resolved.beh = "return"
         /\ ~isPromise(regs[r].on_resolved.val)
         /\ NotCancelled(r))
            => Outcome(fut[regs[r].down]) = Outcome(fut[regs[r].src])

----------------------------------------------------------------------------
(* Cancellation *)

\* promises that are not bound to a task
Plain(p) == p \notin DOMAIN task
Bound(p) == p \in DOMAIN task

\* C11 (cancel on a plain promise): cancel() on a plain promise changes
\* nothing in any state, Pending included: the futures and the loop's queue
\* are as before, and cancelled() is false before and after the call.
CancelPlainIsNoOp ==
    [][\A p \in Held(World) :
          (Plain(p) /\ CancelOf(p)) =>
              /\ fut' = fut
              /\ ready' = ready
              /\ ~call_cancelled(World, p)
              /\ ~call_cancelled(World, p)']_vars

\* C12 (cancel on a bound promise), as stated: cancel() on a TaskPromise
\* whose task is not done is forwarded to the task and leaves the promise's
\* own future alone; once the request is made the promise is eventually
\* rejected with CancelledError, and from then on cancelled() is true.
CancelForwarded ==
    /\ [][\A p \in Held(World) :
             (Bound(p) /\ CancelOf(p) /\ fut[task[p]].state = "PENDING") =>
                 /\ coro'[task[p]] = "must_cancel"
                 /\ fut' = fut]_vars
    /\ \A p \in HeapIds :
          (Bound(p) /\ coro[task[p]] = "must_cancel")
             ~> [](/\ Bound(p)
                   /\ Outcome(fut[p]) = Rejected(CancelledError)
                   /\ call_cancelled(World, p))

\* C12 (cancel on a bound promise), amended: cancel() on a TaskPromise
\* whose task is not done is forwarded to the task as a request and leaves
\* the promise's own future alone; the request reaches the coroutine at a
\* later step of the task. When the coroutine lets the cancellation pass,
\* the task ends cancelled and the promise is eventually rejected with
\* CancelledError, cancelled() being true from the end of the task on. When
\* the coroutine catches it and returns or raises, the promise eventually
\* gets that outcome and cancelled() stays false. A bound promise is
\* rejected with CancelledError only when its task was cancelled.
CancelForwardedAsRequest ==
    /\ [][\A p \in Held(World) :
             (Bound(p) /\ CancelOf(p) /\ fut[task[p]].state = "PENDING") =>
                 /\ coro'[task[p]] = "must_cancel"
                 /\ fut' = fut]_vars
    /\ \A p \in HeapIds :
          (Bound(p) /\ coro[task[p]] = "must_cancel")
             ~> (Bound(p) /\ coro[task[p]] # "must_cancel")
    /\ \A p \in HeapIds :
          (Bound(p) /\ fut[task[p]].state = "CANCELLED")
             ~> [](/\ Bound(p)
                   /\ Outcome(fut[p]) = Rejected(CancelledError)
                   /\ call_cancelled(World, p))
    /\ \A p \in HeapIds :
          (Bound(p) /\ fut[task[p]].state = "FINISHED")
             ~> [](/\ Bound(p)
                   /\ Outcome(fut[p]) = Outcome(fut[task[p]])
                   /\ ~call_cancelled(World, p))
    /\ [](\A p \in Promises(World) :
             (Bound(p) /\ Outcome(fut[p]) = Rejected(CancelledError)) =>
                 (fut[task[p]].state = "CANCELLED"
                     /\ call_cancelled(World, p)))

\* a bound promise has been rejected with CancelledError by the completion
\* callback of its cancelled task
BoundPromiseCancelled ==
    \E p \in Promises(World) :
        /\ Bound(p)
        /\ fut[p].state = "FINISHED"
        /\ fut[p].exception = CancelledError
        /\ call_cancelled(World, p)

\* C13 (cancel after settlement): cancel() on a promise that is already
\* settled, plain or bound, raises nothing and changes neither a future nor
\* a task nor the loop's queue; cancelled() answers as before.
SettledCancelNoOp ==
    [][\A p \in Held(World) :
          (Settled(p) /\ CancelOf(p)) =>
              /\ raised' = NoneV
              /\ fut' = fut
              /\ coro' = coro
              /\ ready' = ready
              /\ call_cancelled(World, p)' = call_cancelled(World, p)]_vars

\* settled promises on which cancel() can be called: a plain one that is
\* fulfilled and a bound one whose task was cancelled
SettledToCancel ==
    /\ \E p \in Held(World) :
          Plain(p) /\ Outcome(fut[p]).kind = "Fulfilled"
    /\ \E p \in Held(World) :
          Bound(p) /\ Settled(p) /\ call_cancelled(World, p)

\* C14 (cancellation is asynchronous): right after cancel() on any
\* pending promise, plain or bound, the promise is still Pending.
CancelIsAsynchronous ==
    [][\A p \in Held(World) :
          (~Settled(p) /\ CancelOf(p)) => Outcome(fut'[p]) = Pending]_vars

----------------------------------------------------------------------------
(* Combinators *)

\* the calls of a combinator that returned a promise
Calls(kind) == {i \in CallsMade : hist[i].kind = kind /\ hist[i].p # 0}

\* the outcome of an input: a value that is no promise counts as fulfilled
InputOutcome(v) == IF isPromise(v) THEN Outcome(fut[v.n]) ELSE Fulfilled(v)

InputsWith(i, kind) ==
    {j \in 1..Len(hist[i].promises) :
        InputOutcome(hist[i].promises[j]).kind = kind}

\* the time at which input v of the call hist[i] settled: the place of its
\* settlement in hist, or the call itself for an input that was settled
\* by then; 0 while it is pending
SettledAt(v, i) ==
    IF ~isPromise(v) THEN i
    ELSE LET s == {k \in 1..Len(hist) :
                      hist[k].ev = "settle" /\ hist[k].p = v.n}
         IN  IF s = {} THEN 0
             ELSE LET k == CHOOSE k \in s : TRUE
                  IN  IF k < i THEN i ELSE k

\* the values of the inputs of the call hist[i], in input order
InputValuesOf(i) ==
    ListV([j \in 1..Len(hist[i].promises) |->
              InputOutcome(hist[i].promises[j]).val])

\* C15 (all fulfils with the aligned results): the promise of
\* Promise.all over at least one input is fulfilled only when every input
\* is fulfilled, with the list whose element j is the value of input j,
\* whatever the order of completion; it is Pending while an input is
\* pending and none is rejected; once all inputs are fulfilled and the
\* loop has run its callbacks it is fulfilled.
AllFulfils ==
    \A i \in Calls("all") :
        LET n == Len(hist[i].promises)
            out == Outcome(fut[hist[i].p])
        IN  n >= 1 =>
              /\ out.kind = "Fulfilled" =>
                    /\ InputsWith(i, "Fulfilled") = 1..n
                    /\ out = Fulfilled(InputValuesOf(i))
              /\ (InputsWith(i, "Pending") # {}
                    /\ InputsWith(i, "Rejected") = {}) => out = Pending
              /\ (InputsWith(i, "Fulfilled") = 1..n /\ ready = <<>>) =>
                    out = Fulfilled(InputValuesOf(i))

\* Promise.all([a, b]) is fulfilled with [value of a, value of b] after b
\* was fulfilled first and a second, both after the call
AllFulfilledOutOfOrder ==
    \E i \in Calls("all") :
        /\ Len(hist[i].promises) = 2
        /\ isPromise(hist[i].promises[1]) /\ isPromise(hist[i].promises[2])
        /\ i < SettledAt(hist[i].promises[2], i)
        /\ SettledAt(hist[i].promises[2], i) < SettledAt(hist[i].promises[1], i)
        /\ Outcome(fut[hist[i].p]) =
               Fulfilled(ListV(<<IntV(hist[i].promises[1].n),
                                 IntV(hist[i].promises[2].n)>>))

\* C16 (all rejects with the first rejection): when the promise of
\* Promise.all is rejected, its reason is the reason of an input such that
\* no input was rejected before it (inputs that were rejected when all was
\* called count as rejected at the call); no later step changes the
\* outcome; once an input is rejected and the loop has run its callbacks
\* the promise is rejected.
AllRejectsWithFirst ==
    /\ [][\A i \in Calls("all") :
             Outcome(fut[hist[i].p]).kind = "Rejected" =>
                 Outcome(fut'[hist[i].p]) = Outcome(fut[hist[i].p])]_vars
    /\ [](\A i \in Calls("all") :
             LET out == Outcome(fut[hist[i].p])
                 rejected == InputsWith(i, "Rejected")
             IN  /\ out.kind = "Rejected" =>
                       \E j \in rejected :
                           /\ out = InputOutcome(hist[i].promises[j])
                           /\ \A k \in rejected :
                                  SettledAt(hist[i].promises[j], i)
                                    <= SettledAt(hist[i].promises[k], i)
                 /\ (rejected # {} /\ ready = <<>>) => out.kind = "Rejected")

\* Promise.all([a, b]) is rejected with the reason of b after b was
\* rejected first and a second, both after the call
AllRejectedBySecondInput ==
    \E i \in Calls("all") :
        /\ Len(hist[i].promises) = 2
        /\ isPromise(hist[i].promises[1]) /\ isPromise(hist[i].promises[2])
        /\ i < SettledAt(hist[i].promises[2], i)
        /\ SettledAt(hist[i].promises[2], i) < SettledAt(hist[i].promises[1], i)
        /\ Outcome(fut[hist[i].promises[1].n]) =
               Rejected(RuntimeError(hist[i].promises[1].n))
        /\ Outcome(fut[hist[i].p]) =
               Rejected(RuntimeError(hist[i].promises[2].n))
        /\ ready = <<>>

\* C17 (empty input): from the return of the call on, Promise.all([]) is
\* fulfilled with the empty list and Promise.any([]) is rejected with an
\* AggregateError whose errors are the empty list.
EmptyInputs ==
    \A i \in CallsMade :
        hist[i].promises = <<>> =>
            /\ hist[i].kind = "all" =>
                  /\ hist[i].p # 0
                  /\ Outcome(fut[hist[i].p]) = Fulfilled(ListV(<<>>))
            /\ hist[i].kind = "any" =>
                  /\ hist[i].p # 0
                  /\ Outcome(fut[hist[i].p]) = Rejected(AggregateError(<<>>))

\* Promise.all([]) and Promise.any([]) have just returned: the loop has
\* run nothing
EmptyAllAndAny ==
    /\ \E i \in Calls("all") : hist[i].promises = <<>>
    /\ \E i \in Calls("any") : hist[i].promises = <<>>
    /\ done = {}

\* the dicts that all_settled makes of the inputs of the call hist[i]
Records(i) ==
    ListV([j \in 1..Len(hist[i].promises) |->
              LET o == InputOutcome(hist[i].promises[j])
              IN  IF o.kind = "Fulfilled" THEN DictFulfilled(o.val)
                  ELSE DictRejected(o.val)])

\* C18 (all_settled never rejects): the promise of Promise.all_settled is
\* never rejected; it is Pending while an input is pending; when it is
\* fulfilled, and once every input is settled and the loop has run its
\* callbacks, its value is the list of records aligned with the inputs,
\* {fulfilled, value} or {rejected, reason}.
AllSettledNeverRejects ==
    \A i \in Calls("all_settled") :
        LET out == Outcome(fut[hist[i].p])
        IN  /\ out.kind # "Rejected"
            /\ InputsWith(i, "Pending") # {} => out = Pending
            /\ out.kind = "Fulfilled" => out = Fulfilled(Records(i))
            /\ (InputsWith(i, "Pending") = {} /\ ready = <<>>) =>
                  out = Fulfilled(Records(i))

\* Promise.all_settled of a fulfilled and a rejected promise is fulfilled
AllSettledMixed ==
    \E i \in Calls("all_settled") :
        /\ InputsWith(i, "Fulfilled") # {}
        /\ InputsWith(i, "Rejected") # {}
        /\ Outcome(fut[hist[i].p]).kind = "Fulfilled"

\* C19 (inputs are normalized): every call of a combinator on a list that
\* holds a value that is no promise returns a promise, and the value
\* counts as an input fulfilled with itself.
RawInputsAccepted ==
    \A i \in CallsMade :
        (\E j \in 1..Len(hist[i].promises) : ~isPromise(hist[i].promises[j]))
            => hist[i].p # 0

\* C20 (any fulfils with the first fulfilment): when the promise of
\* Promise.any is fulfilled, its value is the value of an input such that
\* no input was fulfilled before it (inputs that were fulfilled when any
\* was called, and values that are no promises, count as fulfilled at the
\* call); no later step changes the outcome; it is rejected only when
\* every input is rejected; once an input is fulfilled and the loop has
\* run its callbacks the promise is fulfilled.
AnyFulfilsWithFirst ==
    /\ [][\A i \in Calls("any") :
             Outcome(fut[hist[i].p]).kind = "Fulfilled" =>
                 Outcome(fut'[hist[i].p]) = Outcome(fut[hist[i].p])]_vars
    /\ [](\A i \in Calls("any") :
             LET out == Outcome(fut[hist[i].p])
                 fulfilled == InputsWith(i, "Fulfilled")
             IN  /\ out.kind = "Fulfilled" =>
                       \E j \in fulfilled :
                           /\ out = InputOutcome(hist[i].promises[j])
                           /\ \A k \in fulfilled :
                                  SettledAt(hist[i].promises[j], i)
                                    <= SettledAt(hist[i].promises[k], i)
                 /\ out.kind = "Rejected" => fulfilled = {}
                 /\ out.kind = "Rejected" => InputsWith(i, "Pending") = {}
                 /\ (fulfilled # {} /\ ready = <<>>) =>
                       out.kind = "Fulfilled")

\* Promise.any([a, b]) is fulfilled with the value of b after a was
\* rejected, then b fulfilled, both after the call
AnyFulfilledBySecondInput ==
    \E i \in Calls("any") :
        /\ Len(hist[i].promises) = 2
        /\ isPromise(hist[i].promises[1]) /\ isPromise(hist[i].promises[2])
        /\ i < SettledAt(hist[i].promises[1], i)
        /\ SettledAt(hist[i].promises[1], i) < SettledAt(hist[i].promises[2], i)
        /\ Outcome(fut[hist[i].promises[1].n]).kind = "Rejected"
        /\ Outcome(fut[hist[i].p]) = Fulfilled(IntV(hist[i].promises[2].n))
        /\ ready = <<>>

\* the reasons of the inputs of the call hist[i], in input order
InputReasonsOf(i) ==
    [j \in 1..Len(hist[i].promises) |->
        InputOutcome(hist[i].promises[j]).val]

\* C21 (any rejects with the aligned errors): the promise of Promise.any
\* over at least one input is rejected only when every input is rejected,
\* with an AggregateError whose errors list has the reason of input j at
\* place j, whatever the order of the rejections; it is not rejected while
\* an input is pending; once all inputs are rejected and the loop has run
\* its callbacks it is rejected.
AnyRejectsWithAll ==
    \A i \in Calls("any") :
        LET n == Len(hist[i].promises)
            out == Outcome(fut[hist[i].p])
        IN  n >= 1 =>
              /\ out.kind = "Rejected" =>
                    /\ InputsWith(i, "Rejected") = 1..n
                    /\ out = Rejected(AggregateError(InputReasonsOf(i)))
                    /\ Len(out.val.l) = n
              /\ InputsWith(i, "Pending") # {} => out.kind # "Rejected"
              /\ (InputsWith(i, "Rejected") = 1..n /\ ready = <<>>) =>
                    out = Rejected(AggregateError(InputReasonsOf(i)))

\* Promise.any([a, b]) is rejected with AggregateError([reason of a, reason
\* of b]) after b was rejected first and a second, both after the call
AnyRejectedOutOfOrder ==
    \E i \in Calls("any") :
        /\ Len(hist[i].promises) = 2
        /\ isPromise(hist[i].promises[1]) /\ isPromise(hist[i].promises[2])
        /\ hist[i].promises[1] # hist[i].promises[2]
        /\ i < SettledAt(hist[i].promises[2], i)
        /\ SettledAt(hist[i].promises[2], i) < SettledAt(hist[i].promises[1], i)
        /\ Outcome(fut[hist[i].p]) =
               Rejected(AggregateError(
                   <<RuntimeError(hist[i].promises[1].n),
                     RuntimeError(hist[i].promises[2].n)>>))

\* the inputs of the call hist[i] that are settled
InputsSettled(i) == InputsWith(i, "Fulfilled") \cup InputsWith(i, "Rejected")

\* the registrations that carry the closures of Promise.race
RaceRegs == {r \in DOMAIN regs : regs[r].on_resolved.k = "race_resolve"}

\* C22 (race is latched): when the promise of Promise.race is settled, its
\* outcome is the outcome of an input such that no input settled before it
\* (inputs that were settled when race was called, and values that are no
\* promises, count as settled at the call); no later step changes that
\* outcome; the closures called for the later inputs return normally, so
\* that nothing is raised in the callback or reaches the loop; once an
\* input is settled and the loop has run its callbacks the promise is
\* settled.
RaceLatched ==
    /\ [][\A i \in Calls("race") :
             Outcome(fut[hist[i].p]) # Pending =>
                 Outcome(fut'[hist[i].p]) = Outcome(fut[hist[i].p])]_vars
    /\ [](\A i \in Calls("race") :
             LET out == Outcome(fut[hist[i].p])
                 settled == InputsSettled(i)
             IN  /\ out # Pending =>
                       \E j \in settled :
                           /\ out = InputOutcome(hist[i].promises[j])
                           /\ \A k \in settled :
                                  SettledAt(hist[i].promises[j], i)
                                    <= SettledAt(hist[i].promises[k], i)
                 /\ (settled # {} /\ ready = <<>>) => out # Pending)
    /\ [](/\ \A r \in RaceRegs \cap done :
                Outcome(fut[regs[r].down]) = Fulfilled(NoneV)
          /\ \A e \in escaped : e.reg \notin RaceRegs)

\* Promise.race([a, b]) is rejected with the reason of b after b was
\* rejected first and a fulfilled second, both after the call, and the
\* closures of both inputs have been called
RaceSecondSettlementIgnored ==
    \E i \in Calls("race") :
        /\ Len(hist[i].promises) = 2
        /\ isPromise(hist[i].promises[1]) /\ isPromise(hist[i].promises[2])
        /\ i < SettledAt(hist[i].promises[2], i)
        /\ SettledAt(hist[i].promises[2], i) < SettledAt(hist[i].promises[1], i)
        /\ Outcome(fut[hist[i].promises[1].n]) =
               Fulfilled(IntV(hist[i].promises[1].n))
        /\ Outcome(fut[hist[i].p]) =
               Rejected(RuntimeError(hist[i].promises[2].n))
        /\ Cardinality(RaceRegs \cap done) = 2
        /\ ready = <<>>

\* the inputs of the call hist[i] that were settled when the call was
\* made: values that are no promises, and promises settled before it
PreSettled(i) ==
    {j \in 1..Len(hist[i].promises) :
        \/ ~isPromise(hist[i].promises[j])
        \/ \E k \in 1..(i - 1) :
               hist[k].ev = "settle" /\ hist[k].p = hist[i].promises[j].n}

\* the least element of a non-empty set of indices
Lowest(s) == CHOOSE j \in s : \A k \in s : j <= k

\* C23 (tie-break for pre-settled inputs): when two or more inputs of a
\* call of race, any or all are settled at the call, settled promises and
\* values that are no promises alike, the one with the lowest index
\* decides: race settles with the outcome of the lowest pre-settled input,
\* any fulfils with the value of the lowest pre-fulfilled input, and all
\* rejects with the reason of the lowest pre-rejected input.
PreSettledInputOrder ==
    \A i \in Calls("race") \cup Calls("any") \cup Calls("all") :
        LET out == Outcome(fut[hist[i].p])
            pre == PreSettled(i)
            decisive ==
                CASE hist[i].kind = "race" -> pre
                  [] hist[i].kind = "any" -> pre \cap InputsWith(i, "Fulfilled")
                  [] OTHER -> pre \cap InputsWith(i, "Rejected")
        IN  (Cardinality(pre) >= 2 /\ decisive # {} /\ out # Pending) =>
                /\ hist[i].kind = "all" => out.kind = "Rejected"
                /\ out = InputOutcome(hist[i].promises[Lowest(decisive)])

\* C28 (race of no input): Promise.race([]) returns a promise that is
\* Pending in every state: the call makes no registration and no closure
\* of it is ever called.
EmptyRaceStaysPending ==
    \A i \in CallsMade :
        (hist[i].kind = "race" /\ hist[i].promises = <<>>) =>
            /\ hist[i].p # 0
            /\ Outcome(fut[hist[i].p]) = Pending
            /\ fut[hist[i].p].callbacks = <<>>
            /\ \A r \in RaceRegs : regs[r].on_resolved.tgt \notin
                   {c \in DOMAIN comb : comb[c].new_promise = hist[i].p}

\* Promise.race([]) is pending after the loop has run the callbacks of
\* another call, Promise.all of one input, whose promise is fulfilled
EmptyRacePending ==
    /\ \E i \in Calls("race") :
          hist[i].promises = <<>> /\ Outcome(fut[hist[i].p]) = Pending
    /\ \E k \in Calls("all") :
          /\ Len(hist[k].promises) = 1
          /\ Outcome(fut[hist[k].p]).kind = "Fulfilled"
    /\ ready = <<>>

----------------------------------------------------------------------------
(* Errors of handlers *)

\* C24 (handler errors never reach the loop): when a handler called for a
\* registration has raised, no exception leaves the done-callback of that
\* registration, also when the downstream promise was settled or cancelled
\* before.
HandlerErrorsContained ==
    \A i \in DOMAIN log :
        Called(log[i]).beh = "raise" =>
            \A e \in escaped : e.reg # log[i].reg

\* the selected handler of registration r has run to completion: the
\* done-callback of r has run, a handler written by the user was called,
\* and a promise that it returned is settled
HandlerCompleted(r) ==
    /\ r \in done
    /\ Settled(regs[r].src)
    /\ Selected(r).k \in {"user", "finally"} =>
          \E i \in DOMAIN log : log[i].reg = r /\ Called(log[i]) = Selected(r)
    /\ \A i \in DOMAIN log :
          (log[i].reg = r /\ isPromise(Called(log[i]).val)) =>
              Settled(Called(log[i]).val.n)

\* C26 (the downstream promise waits for the handler): a promise returned
\* by then is Pending in every state in which its source is Pending or the
\* selected handler has not run to completion.
PendingUntilHandlerRan ==
    \A r \in DOMAIN regs :
        Settled(regs[r].down) => HandlerCompleted(r)

----------------------------------------------------------------------------
(* cancelled() *)

\* C27 (cancelled() is the flag of the task): cancelled() of a bound
\* promise is true exactly when its task is cancelled, so it is false when
\* the coroutine returned or raised an ordinary error; it becomes true in
\* the step in which the loop cancels the task; a plain promise that is
\* rejected with CancelledError, such as one obtained by catch from a
\* cancelled bound promise, has cancelled() false.
CancelledIsTaskFlag ==
    /\ [](\A p \in Promises(World) :
             /\ Bound(p) =>
                   /\ call_cancelled(World, p)
                         <=> fut[task[p]].state = "CANCELLED"
                   /\ fut[task[p]].state = "FINISHED" =>
                         ~call_cancelled(World, p)
             /\ (Plain(p) /\ fut[p].state = "FINISHED"
                    /\ fut[p].exception = CancelledError) =>
                   ~call_cancelled(World, p))
    /\ [][\A p \in Promises(World) :
             (Bound(p) /\ ~call_cancelled(World, p)
                 /\ call_cancelled(World, p)') =>
                 /\ coro[task[p]] = "must_cancel"
                 /\ coro'[task[p]] = "done"]_vars

\* a bound promise whose task was cancelled has cancelled() true, the
\* promise that catch made of it is rejected with CancelledError and has
\* cancelled() false, and a bound promise whose coroutine raised is
\* rejected and has cancelled() false
CancelledFlagAndReason ==
    /\ \E r \in done \cap DOMAIN regs :
          /\ Bound(regs[r].src)
          /\ call_cancelled(World, regs[r].src)
          /\ Outcome(fut[regs[r].down]) = Rejected(CancelledError)
          /\ ~call_cancelled(World, regs[r].down)
    /\ \E p \in Promises(World) :
          /\ Bound(p)
          /\ Outcome(fut[p]) = Rejected(RuntimeError(1))
          /\ ~call_cancelled(World, p)

----------------------------------------------------------------------------
(* await *)

\* the registrations that __await__ made
AwaitRegs == {r \in DOMAIN regs : regs[r].on_rejected.k = "await_reject"}

\* C25 (await yields the settlement): a coroutine that awaits promise p
\* waits as long as p is Pending; when it goes on, await has returned the
\* value of p if p is fulfilled and raised the reason of p if p is
\* rejected (seen as the outcome of the task of the coroutine
\* return await p); once p is settled and the loop has run its callbacks
\* the wait is over.
AwaitYieldsSettlement ==
    \A r \in AwaitRegs :
        LET p == Outcome(fut[regs[r].src])
            t == regs[r].on_rejected.tgt
        IN  /\ p = Pending =>
                  (Outcome(fut[t]) = Pending /\ coro[t] = "awaiting")
            /\ Outcome(fut[t]) # Pending =>
                  (Outcome(fut[t]) = p /\ coro[t] = "done")
            /\ (p # Pending /\ ready = <<>>) => Outcome(fut[t]) = p

\* one coroutine got the value of a fulfilled promise from await and
\* another one the reason of a rejected promise
AwaitReturnedAndRaised ==
    /\ \E r \in AwaitRegs :
          /\ Outcome(fut[regs[r].src]) = Fulfilled(IntV(1))
          /\ Outcome(fut[regs[r].on_rejected.tgt]) = Fulfilled(IntV(1))
    /\ \E r \in AwaitRegs :
          /\ Outcome(fut[regs[r].src]) = Rejected(RuntimeError(1))
          /\ Outcome(fut[regs[r].on_rejected.tgt]) = Rejected(RuntimeError(1))

----------------------------------------------------------------------------
(* Cancellation and derived promises *)

\* C30 (cancellation stays where it is requested): cancel() on a plain
\* promise, such as one derived from a bound promise by catch, by
\* Promise.resolve or by a combinator, changes no future but its own and
\* no task; the cancellation of a task is only requested by cancel() on
\* the promise bound to it; a promise only becomes cancelled by its own
\* cancel(), so that a combinator that settles cancels none of its
\* inputs; and a bound promise that is settled has the outcome of its
\* task, which it gets once the task is done and the loop has run its
\* callbacks.
CancellationStaysLocal ==
    /\ [][/\ \A p \in Held(World) :
               (Plain(p) /\ CancelOf(p)) =>
                   /\ coro' = coro
                   /\ \A q \in (1..Len(fut)) \ {p} : fut'[q] = fut[q]
          /\ \A t \in Tasks(World) :
               (coro[t] # "must_cancel" /\ coro'[t] = "must_cancel") =>
                   \E p \in BoundHeld(World) : task[p] = t /\ CancelOf(p)
          /\ \A p \in Promises(World) :
               (fut[p].state # "CANCELLED" /\ fut'[p].state = "CANCELLED")
                   => (p \in Held(World) /\ CancelOf(p))]_vars
    /\ [](\A p \in Promises(World) :
             Bound(p) =>
                 /\ Settled(p) => Outcome(fut[p]) = Outcome(fut[task[p]])
                 /\ (Settled(task[p]) /\ ready = <<>>) =>
                       Outcome(fut[p]) = Outcome(fut[task[p]]))

\* the promise of a combinator over a bound promise was cancelled by user
\* code, the task went on, and the bound promise is fulfilled with what
\* the coroutine returned
DerivedCancelledUnitCompleted ==
    \E i \in CallsMade :
        /\ hist[i].p # 0
        /\ fut[hist[i].p].state = "CANCELLED"
        /\ Bound(hist[i].promises[1].n)
        /\ Outcome(fut[hist[i].promises[1].n]) = Fulfilled(IntV(1))
        /\ fut[task[hist[i].promises[1].n]].state = "FINISHED"
        /\ ready = <<>>

----------------------------------------------------------------------------
(* Chains *)

\* the registrations of the chain that leads to registration r: r and the
\* ones whose downstream promise is the source of one of them
RECURSIVE ChainOf(_)
ChainOf(r) ==
    LET up == {a \in DOMAIN regs : regs[a].down = regs[r].src}
    IN  {r} \cup UNION {ChainOf(a) : a \in up}

\* the promise at the head of the chain that leads to registration r
RootOf(r) ==
    regs[CHOOSE a \in ChainOf(r) :
             \A b \in DOMAIN regs : regs[b].down # regs[a].src].src

\* a handler called on the chain of r returned a promise that is pending
WaitsForReturned(r) ==
    \E i \in DOMAIN log :
        /\ log[i].reg \in ChainOf(r)
        /\ isPromise(Called(log[i]).val)
        /\ ~Settled(Called(log[i]).val.n)

\* the registrations a chain can have: one per call of user code and one
\* for each promise a handler returned
RegIds == 1..(2 * MaxChain)

\* C29 (chain liveness): with a loop that keeps running, whenever the
\* promise at the head of a chain of then / catch / finally_ calls is
\* settled, every registration of the chain, made before or after the
\* settlement, is eventually delivered and its downstream promise settled,
\* unless a handler of the chain returned a promise that is still pending.
ChainSettles ==
    \A r \in RegIds :
        (r \in DOMAIN regs /\ Settled(RootOf(r)))
            ~> (/\ r \in DOMAIN regs
                /\ \/ \A a \in ChainOf(r) :
                         a \in done /\ Settled(regs[a].down)
                   \/ WaitsForReturned(r))

\* a chain of two registrations made by user code has been delivered and
\* its last promise is settled
ChainOfTwoSettled ==
    \E r1, r2 \in done :
        /\ regs[r2].src = regs[r1].down
        /\ regs[r1].on_resolved.k \in {"user", "finally"}
        /\ Settled(regs[r2].down)
====
